---- MODULE Spec2Model ----
(***************************************************************************)
(* Model of src/nbainjuries/_parser.py: validate_injrepurl,                *)
(* extract_injrepurl and extract_injreplocal.                              *)
(*                                                                         *)
(* One caller invokes the two entry operations one after the other (the    *)
(* module is synchronous and keeps no state between invocations).  The     *)
(* HTTP server, the PDF page counter, tabula and the helpers of _util are  *)
(* collaborators: the document they see is fixed in `world`, the           *)
(* transport and filesystem outcomes are chosen at each step.              *)
(***************************************************************************)
EXTENDS Integers, Sequences, FiniteSets, TLC

\* ------------------------------------------------------------------ bounds
MaxPages == 3

\* ------------------------------------------------------- program constants
RetryTotal == 5
DefaultRetries == 0
StatusForcelist == {429, 500, 502, 503, 504}

\* --------------------------------------------------------------- inputs
None == "None"
HeadAreas == {"a1"}
HeadCols == {"c1"}
OtherAreas == {None, "a2"}
OtherCols == {None, "c2"}
\* a location is its scheme prefix followed by the rest
UrlPaths == {<<"https://", "h/r.pdf">>, <<"http://", "h/r.pdf">>}
LocalPaths == {<<"", "r.pdf">>}
\* what the server (or the network) makes of one GET
Status(n) == [kind |-> "status", status |-> n]
ConnectionError == [kind |-> "error", status |-> 0]
NoResponse == [kind |-> "none", status |-> 0]
ServerResponses == {Status(200), Status(404), Status(500), Status(503), ConnectionError}
FailPoints == {"none", "head", "head_empty", "validate", "other", "concat", "clean"}

ArgsOf(paths) ==
    [filepath : paths, area_headpg : HeadAreas, cols_headpg : HeadCols,
     area_otherpgs : OtherAreas, cols_otherpgs : OtherCols]

NoArgs ==
    [filepath |-> <<"", "-">>, area_headpg |-> "-", cols_headpg |-> "-",
     area_otherpgs |-> "-", cols_otherpgs |-> "-"]

\* ------------------------------------------------------------ exceptions
Exc(type, loc, cause) == [type |-> type, loc |-> loc, cause |-> cause]
NoExc == Exc("-", <<"", "-">>, "-")

URLRetrievalError(filepath, cause) == Exc("URLRetrievalError", filepath, cause)
LocalRetrievalError(filepath, cause) == Exc("LocalRetrievalError", filepath, cause)

Outcome(kind, exc, table) == [kind |-> kind, exc |-> exc, table |-> table]
NoOutcome == Outcome("none", NoExc, <<>>)
Raise(exc) == Outcome("raise", exc, <<>>)
Return(table) == Outcome("return", NoExc, table)

\* ------------------------------------------------------- collaborator calls
Call(fn, src, pages, area, columns, header) ==
    [fn |-> fn, src |-> src, pages |-> pages, area |-> area,
     columns |-> columns, header |-> header]

Fragment(page, area, columns, header) ==
    [page |-> page, area |-> area, columns |-> columns, header |-> header]

\* tabula.read_pdf: one fragment per requested page, read with the geometry
\* and the header option it was given
ReadPdf(pages, area, columns, header) ==
    [i \in 1..(pages[2] - pages[1] + 1) |->
        Fragment(pages[1] + i - 1, area, columns, header)]

\* __concat_injreppgs: header-page fragments first, then the continuation
\* fragments in page order
ConcatInjrepPgs(dflist_headpg, dflist_otherpgs) == dflist_headpg \o dflist_otherpgs

\* __clean_injrep: row-preserving normalisation of the raw table
CleanInjrep(df_rawdata) == [i \in 1..Len(df_rawdata) |-> [df_rawdata[i] EXCEPT !.header = "clean"]]

\* Session.get_adapter: the adapter mounted on the prefix the url starts with
StartsWith(filepath, prefix) == filepath[1] = prefix

\* Session() mounts a default adapter (max_retries = 0, no status
\* forcelist) on both schemes; mount("https://", ...) replaces one of them
MountedTotal(filepath) ==
    IF StartsWith(filepath, "https://") THEN RetryTotal ELSE DefaultRetries

MountedForcelist(filepath) ==
    IF StartsWith(filepath, "https://") THEN StatusForcelist ELSE {}

VARIABLES
    world,          \* the document: page count and the collaborator that rejects it
    pc,             \* position of the running invocation
    mode,           \* "none" | "url" | "local"
    args,           \* arguments of the running invocation, as the caller passed them
    area_otherpgs,  \* local of the invocation (rebound by the defaulting)
    cols_otherpgs,  \* local of the invocation (rebound by the defaulting)
    pdf_numpgs,     \* local: page count, 0 while unknown
    dfs_headpg,     \* local
    dfs_otherpgs,   \* local
    df_rawdata,     \* local
    retries,        \* Retry.total left on the adapter serving the request
    attempts,       \* GET requests sent by this invocation
    only503,        \* every GET of this invocation was answered with 503
    lastresp,       \* the answer to the last GET
    tmp_exists,     \* the invocation's temporary file is on the filesystem
    tmp_created,    \* the invocation created a temporary file
    body,           \* how the try-body of extract_injrepurl ended
    unlink_failed,  \* tmp_path.unlink raised
    raised,         \* the error first raised inside the invocation
    raisedBy,       \* the call that raised it
    outcome,        \* what the caller receives
    log,            \* collaborator calls of the invocation, in order
    prev            \* summary of the previous invocation

vars == <<world, pc, mode, args, area_otherpgs, cols_otherpgs, pdf_numpgs,
          dfs_headpg, dfs_otherpgs, df_rawdata, retries, attempts, only503,
          lastresp, tmp_exists, tmp_created, body, unlink_failed, raised,
          raisedBy, outcome, log, prev>>

locals == <<area_otherpgs, cols_otherpgs, pdf_numpgs, dfs_headpg, dfs_otherpgs, df_rawdata>>
http == <<retries, attempts, only503, lastresp>>
tmpf == <<tmp_exists, tmp_created>>
fin == <<body, unlink_failed>>
err == <<raised, raisedBy>>

NoPrev == [mode |-> "none", args |-> NoArgs, pdf_numpgs |-> 0, log |-> <<>>, outcome |-> NoOutcome]

Init ==
    /\ world \in [numpgs : 1..MaxPages, failAt : FailPoints]
    /\ pc = "idle"
    /\ mode = "none"
    /\ args = NoArgs
    /\ area_otherpgs = "-"
    /\ cols_otherpgs = "-"
    /\ pdf_numpgs = 0
    /\ dfs_headpg = <<>>
    /\ dfs_otherpgs = <<>>
    /\ df_rawdata = <<>>
    /\ retries = 0
    /\ attempts = 0
    /\ only503 = TRUE
    /\ lastresp = NoResponse
    /\ tmp_exists = FALSE
    /\ tmp_created = FALSE
    /\ body = NoOutcome
    /\ unlink_failed = FALSE
    /\ raised = NoExc
    /\ raisedBy = "-"
    /\ outcome = NoOutcome
    /\ log = <<>>
    /\ prev = NoPrev

\* ------------------------------------------------- validate_injrepurl
\* the caller enters extract_injrepurl, which calls validate_injrepurl:
\* the session is built and the retrying adapter mounted
CallUrl ==
    /\ pc = "idle"
    /\ \E a \in ArgsOf(UrlPaths) :
        /\ args' = a
        /\ retries' = MountedTotal(a.filepath)
    /\ mode' = "url"
    /\ pc' = "get"
    /\ UNCHANGED <<world, locals, attempts, only503, lastresp, tmpf, fin, err,
                   outcome, log, prev>>

\* validate_injrepurl wraps the RequestException; extract_injrepurl (line 65)
\* catches nothing there
UrlRetrievalFails(cause) ==
    /\ raised' = Exc(cause, <<"", "-">>, "-")
    /\ raisedBy' = "session.get"
    /\ outcome' = Raise(URLRetrievalError(args.filepath, cause))
    /\ pc' = "done"

\* one GET sent by session.get, and what urllib3's Retry makes of the answer
UrlGet ==
    /\ pc = "get"
    /\ \E r \in ServerResponses :
        /\ attempts' = attempts + 1
        /\ only503' = (only503 /\ r = Status(503))
        /\ lastresp' = r
        /\ IF r.kind = "error" \/ r.status \in MountedForcelist(args.filepath)
           THEN IF retries - 1 < 0
                THEN /\ UrlRetrievalFails(IF r.kind = "error"
                                          THEN "ConnectionError" ELSE "RetryError")
                     /\ UNCHANGED retries
                ELSE /\ retries' = retries - 1
                     /\ UNCHANGED <<pc, outcome, raised, raisedBy>>
           ELSE IF r.status \in 200..299
                THEN /\ pc' = "stream"
                     /\ UNCHANGED <<retries, outcome, raised, raisedBy>>
                ELSE /\ UrlRetrievalFails("HTTPError")
                     /\ UNCHANGED retries
    /\ UNCHANGED <<world, mode, args, locals, tmpf, fin, log, prev>>

\* ------------------------------------------------- extract_injrepurl
\* lines 70-74: the temporary file is created (delete=False) and the body is
\* streamed into it; this block is outside the try/finally
UrlStream ==
    /\ pc = "stream"
    /\ tmp_created' = TRUE
    /\ tmp_exists' = TRUE
    /\ \E streamed \in BOOLEAN :
        IF streamed
        THEN /\ pc' = "u_pagect"
             /\ UNCHANGED <<err, outcome>>
        ELSE /\ raised' = Exc("ChunkedEncodingError", <<"", "-">>, "-")
             /\ raisedBy' = "iter_content"
             /\ outcome' = Raise(Exc("ChunkedEncodingError", <<"", "-">>, "-"))
             /\ pc' = "done"
    /\ UNCHANGED <<world, mode, args, locals, http, fin, log, prev>>

\* an exception inside the try-body: control goes to the finally clause
UrlBodyRaises(by, type) ==
    /\ raised' = Exc(type, <<"", "-">>, "-")
    /\ raisedBy' = by
    /\ body' = Raise(Exc(type, <<"", "-">>, "-"))
    /\ pc' = "u_unlink"

UrlAreaOther(a) == IF a.area_otherpgs = None THEN a.area_headpg ELSE a.area_otherpgs

\* the columns defaulted on the test of the area
UrlColsOther_OnArea(a) == IF a.area_otherpgs = None THEN a.cols_headpg ELSE a.cols_otherpgs

UrlColsOther(a) == IF a.cols_otherpgs = None THEN a.cols_headpg ELSE a.cols_otherpgs

\* lines 77-83: page count of the temporary file, then the defaulting
UrlPageCount ==
    /\ pc = "u_pagect"
    /\ \E readable \in BOOLEAN :
        IF readable
        THEN /\ pdf_numpgs' = world.numpgs
             /\ area_otherpgs' = UrlAreaOther(args)
             /\ cols_otherpgs' = UrlColsOther(args)
             /\ pc' = "u_head"
             /\ UNCHANGED <<err, body>>
        ELSE /\ UrlBodyRaises("PdfReader", "PdfReadError")
             /\ UNCHANGED <<pdf_numpgs, area_otherpgs, cols_otherpgs>>
    /\ log' = Append(log, Call("PdfReader", "tmp", <<0, 0>>, "-", "-", "-"))
    /\ UNCHANGED <<world, mode, args, dfs_headpg, dfs_otherpgs, df_rawdata, http,
                   tmpf, unlink_failed, outcome, prev>>

\* lines 86-92: first page, columns named from the first row
UrlHeadPg ==
    /\ pc = "u_head"
    /\ log' = Append(log, Call("read_pdf", "tmp", <<1, 1>>, args.area_headpg,
                               args.cols_headpg, "infer"))
    /\ IF world.failAt = "head"
       THEN /\ UrlBodyRaises("read_pdf", "CalledProcessError")
            /\ UNCHANGED dfs_headpg
       ELSE /\ dfs_headpg' = IF world.failAt = "head_empty" THEN <<>>
                             ELSE ReadPdf(<<1, 1>>, args.area_headpg, args.cols_headpg, "infer")
            /\ pc' = "u_validate"
            /\ UNCHANGED <<err, body>>
    /\ UNCHANGED <<world, mode, args, area_otherpgs, cols_otherpgs, pdf_numpgs,
                   dfs_otherpgs, df_rawdata, http, tmpf, unlink_failed, outcome, prev>>

\* line 93: dfs_headpg[0], then _validate_headers on it
UrlValidate ==
    /\ pc = "u_validate"
    /\ IF dfs_headpg = <<>>
       THEN /\ UrlBodyRaises("dfs_headpg[0]", "IndexError")
            /\ UNCHANGED log
       ELSE /\ log' = Append(log, Call("_validate_headers", "-", <<1, 1>>,
                                       dfs_headpg[1].area, dfs_headpg[1].columns, "-"))
            /\ IF world.failAt = "validate"
               THEN UrlBodyRaises("_validate_headers", "HeaderValidationError")
               ELSE /\ pc' = "u_other"
                    /\ UNCHANGED <<err, body>>
    /\ UNCHANGED <<world, mode, args, locals, http, tmpf, unlink_failed, outcome, prev>>

UrlNeedsOtherPgs(n) == n >= 2

UrlOtherPages(n) == <<2, n>>

\* lines 96-105: the following pages, read without a header row
UrlOtherPgs ==
    /\ pc = "u_other"
    /\ IF UrlNeedsOtherPgs(pdf_numpgs)
       THEN /\ log' = Append(log, Call("read_pdf", "tmp", UrlOtherPages(pdf_numpgs),
                                       area_otherpgs, cols_otherpgs, "none"))
            /\ IF world.failAt = "other"
               THEN /\ UrlBodyRaises("read_pdf", "CalledProcessError")
                    /\ UNCHANGED dfs_otherpgs
               ELSE /\ dfs_otherpgs' = ReadPdf(UrlOtherPages(pdf_numpgs), area_otherpgs,
                                               cols_otherpgs, "none")
                    /\ pc' = "u_concat"
                    /\ UNCHANGED <<err, body>>
       ELSE /\ dfs_otherpgs' = <<>>
            /\ pc' = "u_concat"
            /\ UNCHANGED <<log, err, body>>
    /\ UNCHANGED <<world, mode, args, area_otherpgs, cols_otherpgs, pdf_numpgs,
                   dfs_headpg, df_rawdata, http, tmpf, unlink_failed, outcome, prev>>

\* lines 107-110
UrlConcat ==
    /\ pc = "u_concat"
    /\ log' = Append(log, Call("__concat_injreppgs", "-", <<Len(dfs_headpg), Len(dfs_otherpgs)>>,
                               "-", "-", "-"))
    /\ IF world.failAt = "concat"
       THEN /\ UrlBodyRaises("__concat_injreppgs", "ConcatError")
            /\ UNCHANGED df_rawdata
       ELSE /\ df_rawdata' = ConcatInjrepPgs(dfs_headpg, dfs_otherpgs)
            /\ pc' = "u_clean"
            /\ UNCHANGED <<err, body>>
    /\ UNCHANGED <<world, mode, args, area_otherpgs, cols_otherpgs, pdf_numpgs,
                   dfs_headpg, dfs_otherpgs, http, tmpf, unlink_failed, outcome, prev>>

\* lines 111-112: the return value is held while the finally clause runs
UrlClean ==
    /\ pc = "u_clean"
    /\ log' = Append(log, Call("__clean_injrep", "-", <<Len(df_rawdata), 0>>, "-", "-", "-"))
    /\ IF world.failAt = "clean"
       THEN UrlBodyRaises("__clean_injrep", "CleanError")
       ELSE /\ body' = Return(CleanInjrep(df_rawdata))
            /\ pc' = "u_unlink"
            /\ UNCHANGED err
    /\ UNCHANGED <<world, mode, args, locals, http, tmpf, unlink_failed, outcome, prev>>

\* a finally clause that lets the error of unlink out
UrlUnlink_Propagates ==
    /\ pc = "u_unlink"
    /\ \E unlinked \in BOOLEAN :
        /\ tmp_exists' = IF unlinked THEN FALSE ELSE tmp_exists
        /\ unlink_failed' = ~unlinked
        /\ outcome' = IF unlinked THEN body
                      ELSE Raise(Exc("PermissionError", <<"", "-">>, "-"))
    /\ pc' = "done"
    /\ UNCHANGED <<world, mode, args, locals, http, tmp_created, body, err, log, prev>>

\* lines 114-119: unlink(missing_ok=True); an Exception it raises is passed over
UrlUnlink ==
    /\ pc = "u_unlink"
    /\ \E unlinked \in BOOLEAN :
        /\ tmp_exists' = IF unlinked THEN FALSE ELSE tmp_exists
        /\ unlink_failed' = ~unlinked
    /\ outcome' = body
    /\ pc' = "done"
    /\ UNCHANGED <<world, mode, args, locals, http, tmp_created, body, err, log, prev>>

\* ------------------------------------------------- extract_injreplocal
CallLocal ==
    /\ pc = "idle"
    /\ \E a \in ArgsOf(LocalPaths) : args' = a
    /\ mode' = "local"
    /\ pc' = "l_pagect"
    /\ UNCHANGED <<world, locals, http, tmpf, fin, err, outcome, log, prev>>

\* an exception in extract_injreplocal: nothing catches it
LocalRaises(by, type) ==
    /\ raised' = Exc(type, <<"", "-">>, "-")
    /\ raisedBy' = by
    /\ outcome' = Raise(Exc(type, <<"", "-">>, "-"))
    /\ pc' = "done"

PageCountErrors == {"FileNotFoundError", "PermissionError", "PdfReadError"}

LocalAreaOther(a) == IF a.area_otherpgs = None THEN a.area_headpg ELSE a.area_otherpgs

LocalColsOther(a) == IF a.cols_otherpgs = None THEN a.cols_headpg ELSE a.cols_otherpgs

\* a page-count probe that stops at the missing file only
LocalCaught_OnlyMissing(e) == e = "FileNotFoundError"

\* line 127: the errors of the probe that are wrapped
LocalCaught(e) == e \in {"FileNotFoundError", "PermissionError"}

\* lines 125-134: page count of the caller's file, then the defaulting
LocalPageCount ==
    /\ pc = "l_pagect"
    /\ log' = Append(log, Call("_pagect_localpdf", "path", <<0, 0>>, "-", "-", "-"))
    /\ \/ /\ pdf_numpgs' = world.numpgs
          /\ area_otherpgs' = LocalAreaOther(args)
          /\ cols_otherpgs' = LocalColsOther(args)
          /\ pc' = "l_head"
          /\ UNCHANGED <<err, outcome>>
       \/ \E e \in PageCountErrors :
          /\ raised' = Exc(e, <<"", "-">>, "-")
          /\ raisedBy' = "_pagect_localpdf"
          /\ outcome' = IF LocalCaught(e)
                        THEN Raise(LocalRetrievalError(args.filepath, e))
                        ELSE Raise(Exc(e, <<"", "-">>, "-"))
          /\ pc' = "done"
          /\ UNCHANGED <<pdf_numpgs, area_otherpgs, cols_otherpgs>>
    /\ UNCHANGED <<world, mode, args, dfs_headpg, dfs_otherpgs, df_rawdata, http,
                   tmpf, fin, prev>>

\* lines 137-138
LocalHeadPg ==
    /\ pc = "l_head"
    /\ log' = Append(log, Call("read_pdf", "path", <<1, 1>>, args.area_headpg,
                               args.cols_headpg, "infer"))
    /\ IF world.failAt = "head"
       THEN /\ LocalRaises("read_pdf", "CalledProcessError")
            /\ UNCHANGED dfs_headpg
       ELSE /\ dfs_headpg' = IF world.failAt = "head_empty" THEN <<>>
                             ELSE ReadPdf(<<1, 1>>, args.area_headpg, args.cols_headpg, "infer")
            /\ pc' = "l_validate"
            /\ UNCHANGED <<err, outcome>>
    /\ UNCHANGED <<world, mode, args, area_otherpgs, cols_otherpgs, pdf_numpgs,
                   dfs_otherpgs, df_rawdata, http, tmpf, fin, prev>>

\* a validation whose failure does not stop the invocation
LocalValidate_NoGate ==
    /\ pc = "l_validate"
    /\ IF dfs_headpg = <<>>
       THEN /\ LocalRaises("dfs_headpg[0]", "IndexError")
            /\ UNCHANGED log
       ELSE /\ log' = Append(log, Call("_validate_headers", "-", <<1, 1>>,
                                       dfs_headpg[1].area, dfs_headpg[1].columns, "-"))
            /\ pc' = "l_other"
            /\ IF world.failAt = "validate"
               THEN /\ raised' = Exc("HeaderValidationError", <<"", "-">>, "-")
                    /\ raisedBy' = "_validate_headers"
                    /\ UNCHANGED outcome
               ELSE UNCHANGED <<err, outcome>>
    /\ UNCHANGED <<world, mode, args, locals, http, tmpf, fin, prev>>

\* line 139
LocalValidate ==
    /\ pc = "l_validate"
    /\ IF dfs_headpg = <<>>
       THEN /\ LocalRaises("dfs_headpg[0]", "IndexError")
            /\ UNCHANGED log
       ELSE /\ log' = Append(log, Call("_validate_headers", "-", <<1, 1>>,
                                       dfs_headpg[1].area, dfs_headpg[1].columns, "-"))
            /\ IF world.failAt = "validate"
               THEN LocalRaises("_validate_headers", "HeaderValidationError")
               ELSE /\ pc' = "l_other"
                    /\ UNCHANGED <<err, outcome>>
    /\ UNCHANGED <<world, mode, args, locals, http, tmpf, fin, prev>>

\* the continuation pages requested for any document that has a page
LocalNeedsOtherPgs_OffByOne(n) == n >= 1

LocalNeedsOtherPgs(n) == n >= 2

\* a page selector that starts again at the header page
LocalOtherPages_FromFirst(n) == <<1, n>>

LocalOtherPages(n) == <<2, n>>

\* lines 141-145
LocalOtherPgs ==
    /\ pc = "l_other"
    /\ IF LocalNeedsOtherPgs(pdf_numpgs)
       THEN /\ log' = Append(log, Call("read_pdf", "path", LocalOtherPages(pdf_numpgs),
                                       area_otherpgs, cols_otherpgs, "none"))
            /\ IF world.failAt = "other"
               THEN /\ LocalRaises("read_pdf", "CalledProcessError")
                    /\ UNCHANGED dfs_otherpgs
               ELSE /\ dfs_otherpgs' = ReadPdf(LocalOtherPages(pdf_numpgs), area_otherpgs,
                                               cols_otherpgs, "none")
                    /\ pc' = "l_concat"
                    /\ UNCHANGED <<err, outcome>>
       ELSE /\ dfs_otherpgs' = <<>>
            /\ pc' = "l_concat"
            /\ UNCHANGED <<log, err, outcome>>
    /\ UNCHANGED <<world, mode, args, area_otherpgs, cols_otherpgs, pdf_numpgs,
                   dfs_headpg, df_rawdata, http, tmpf, fin, prev>>

\* line 149
LocalConcat ==
    /\ pc = "l_concat"
    /\ log' = Append(log, Call("__concat_injreppgs", "-", <<Len(dfs_headpg), Len(dfs_otherpgs)>>,
                               "-", "-", "-"))
    /\ IF world.failAt = "concat"
       THEN /\ LocalRaises("__concat_injreppgs", "ConcatError")
            /\ UNCHANGED df_rawdata
       ELSE /\ df_rawdata' = ConcatInjrepPgs(dfs_headpg, dfs_otherpgs)
            /\ pc' = "l_clean"
            /\ UNCHANGED <<err, outcome>>
    /\ UNCHANGED <<world, mode, args, area_otherpgs, cols_otherpgs, pdf_numpgs,
                   dfs_headpg, dfs_otherpgs, http, tmpf, fin, prev>>

\* lines 150-151
LocalClean ==
    /\ pc = "l_clean"
    /\ log' = Append(log, Call("__clean_injrep", "-", <<Len(df_rawdata), 0>>, "-", "-", "-"))
    /\ IF world.failAt = "clean"
       THEN LocalRaises("__clean_injrep", "CleanError")
       ELSE /\ outcome' = Return(CleanInjrep(df_rawdata))
            /\ pc' = "done"
            /\ UNCHANGED err
    /\ UNCHANGED <<world, mode, args, locals, http, tmpf, fin, prev>>

\* ------------------------------------------------- the caller
\* the invocation has returned or raised; its frame is gone
Finish ==
    /\ pc = "done"
    /\ prev' = [mode |-> mode, args |-> args, pdf_numpgs |-> pdf_numpgs,
                log |-> log, outcome |-> outcome]
    /\ pc' = "idle"
    /\ mode' = "none"
    /\ args' = NoArgs
    /\ area_otherpgs' = "-"
    /\ cols_otherpgs' = "-"
    /\ pdf_numpgs' = 0
    /\ dfs_headpg' = <<>>
    /\ dfs_otherpgs' = <<>>
    /\ df_rawdata' = <<>>
    /\ retries' = 0
    /\ attempts' = 0
    /\ only503' = TRUE
    /\ lastresp' = NoResponse
    /\ tmp_exists' = FALSE
    /\ tmp_created' = FALSE
    /\ body' = NoOutcome
    /\ unlink_failed' = FALSE
    /\ raised' = NoExc
    /\ raisedBy' = "-"
    /\ outcome' = NoOutcome
    /\ log' = <<>>
    /\ UNCHANGED world

Next ==
    \/ CallUrl
    \/ UrlGet
    \/ UrlStream
    \/ UrlPageCount
    \/ UrlHeadPg
    \/ UrlValidate
    \/ UrlOtherPgs
    \/ UrlConcat
    \/ UrlClean
    \/ UrlUnlink
    \/ CallLocal
    \/ LocalPageCount
    \/ LocalHeadPg
    \/ LocalValidate
    \/ LocalOtherPgs
    \/ LocalConcat
    \/ LocalClean
    \/ Finish

Spec == Init /\ [][Next]_vars

\* ================================================================ properties
Running == mode # "none"
Ended == pc = "done"

\* positions in the log of the read_pdf calls made after header validation
ContCalls ==
    {i \in DOMAIN log : /\ log[i].fn = "read_pdf"
                        /\ \E j \in 1..(i - 1) : log[j].fn = "_validate_headers"}

\* positions in the log of the calls made once header validation was called
AfterValidation ==
    {i \in DOMAIN log : \E j \in 1..(i - 1) : log[j].fn = "_validate_headers"}

\* C1: when an invocation of extract_injrepurl returns or raises, whatever
\* the way it ends, no temporary file it created is left on the filesystem.
C1_NoTempFileAtExit ==
    (Ended /\ mode = "url") => ~tmp_exists

\* C2: when every GET was answered with 503 and the retrieval error is
\* raised, exactly 5 GET requests were sent.
C2_ExactlyFiveAttempts ==
    (Ended /\ mode = "url" /\ raisedBy = "session.get" /\ only503) => attempts = 5

\* C3: every transport failure of extract_injrepurl (on the GET or while the
\* body is streamed) reaches the caller as URLRetrievalError carrying the
\* location and the cause.
C3_TransportFailuresWrapped ==
    (Ended /\ mode = "url" /\ raisedBy \in {"session.get", "iter_content"})
        => outcome = Raise(URLRetrievalError(args.filepath, raised.type))

\* C4: a failed header validation ends the invocation with an error before
\* any continuation extraction, reconciliation or normalisation, and no table
\* is returned.
C4_HeaderValidationGate ==
    (Running /\ raisedBy = "_validate_headers")
        => /\ AfterValidation = {}
           /\ log[Len(log)].fn = "_validate_headers"
           /\ pc \in {"u_unlink", "done"}
           /\ body.kind # "return"
           /\ outcome.kind # "return"
           /\ Ended => outcome.kind = "raise"

C4_Witness ==
    /\ Ended /\ mode = "url" /\ raisedBy = "_validate_headers" /\ world.numpgs >= 2
    /\ prev.mode = "local" /\ prev.outcome.exc.type = "HeaderValidationError"

\* C5: continuation extraction is called iff the page count is at least 2
\* (and validation passed), then exactly once with pages 2..N and no header
\* row; with one page it is not called, reconciliation gets an empty
\* continuation list and the invocation does not fail for it.
C5_ContinuationIffMultiPage ==
    /\ Cardinality(ContCalls) <= 1
    /\ \A i \in ContCalls :
        /\ pdf_numpgs >= 2
        /\ log[i - 1].fn = "_validate_headers"
        /\ log[i].pages = <<2, pdf_numpgs>>
        /\ log[i].header = "none"
    /\ \A i \in DOMAIN log :
        log[i].fn = "__concat_injreppgs"
            => /\ (ContCalls # {}) <=> (pdf_numpgs >= 2)
               /\ pdf_numpgs = 1 => (log[i].pages[2] = 0 /\ dfs_otherpgs = <<>>)
    /\ (Ended /\ pdf_numpgs = 1 /\ world.failAt \in {"none", "other"})
            => outcome.kind = "return"

C5_Witness ==
    /\ Ended /\ outcome.kind = "return" /\ pdf_numpgs = MaxPages /\ ContCalls # {}
    /\ prev.outcome.kind = "return" /\ prev.mode # mode

\* C6: in extract_injreplocal a FileNotFoundError or PermissionError of the
\* page-count probe is raised as LocalRetrievalError with the path and the
\* cause, before any extraction, validation, reconciliation or normalisation.
C6_LocalRetrievalError ==
    (mode = "local" /\ raisedBy = "_pagect_localpdf"
        /\ raised.type \in {"FileNotFoundError", "PermissionError"})
        => /\ Ended
           /\ outcome = Raise(LocalRetrievalError(args.filepath, raised.type))
           /\ Len(log) = 1
           /\ log[1].fn = "_pagect_localpdf"

C6_Witness ==
    mode = "local" /\ Ended /\ raised.type = "PermissionError"

\* C7: the continuation area and columns requested are never null: an unset
\* one equals the header-page value, a supplied one is passed unchanged, each
\* independently; the header-page geometry is used as given.
C7_ContinuationGeometryDefaults ==
    /\ \A i \in ContCalls :
        /\ log[i].area # None
        /\ log[i].columns # None
        /\ args.area_otherpgs = None => log[i].area = args.area_headpg
        /\ args.area_otherpgs # None => log[i].area = args.area_otherpgs
        /\ args.cols_otherpgs = None => log[i].columns = args.cols_headpg
        /\ args.cols_otherpgs # None => log[i].columns = args.cols_otherpgs
    /\ \A i \in DOMAIN log :
        (log[i].fn = "read_pdf" /\ i \notin ContCalls)
            => log[i].area = args.area_headpg /\ log[i].columns = args.cols_headpg

C7_Witness ==
    /\ ContCalls # {} /\ args.area_otherpgs = None /\ args.cols_otherpgs # None
    /\ prev.mode # "none" /\ prev.mode # mode
    /\ prev.args.area_otherpgs # None /\ prev.args.cols_otherpgs = None
    /\ prev.outcome.kind = "return"

\* C8: in extract_injrepurl only a failure to delete the temporary file is
\* passed over: the caller gets the error of the try-body, or the table if
\* the body succeeded, whether or not the deletion failed.
C8_OnlyCleanupSwallowed ==
    (Ended /\ mode = "url" /\ raisedBy \notin {"session.get", "iter_content"})
        => /\ outcome = body
           /\ raisedBy # "-" => outcome = Raise(raised)
           /\ raisedBy = "-" => outcome.kind = "return"

C8_Witness ==
    /\ Ended /\ mode = "url" /\ unlink_failed /\ outcome.kind = "raise"
    /\ prev.mode = "url" /\ prev.outcome.kind = "return"

\* C9: a retryable status is retried within the budget whatever the scheme of
\* the location: after such an answer with budget left, another GET follows.
C9_RetryAnyScheme ==
    (mode = "url" /\ lastresp.kind = "status" /\ lastresp.status \in StatusForcelist
        /\ attempts <= RetryTotal)
        => pc = "get"

\* on the retrying adapter the budget of RetryTotal retries makes
\* RetryTotal + 1 requests
RetryBudgetMounted ==
    (Ended /\ mode = "url" /\ raisedBy = "session.get" /\ only503
        /\ StartsWith(args.filepath, "https://"))
        => attempts = RetryTotal + 1

\* the calls of the pipeline proper, without the byte-source handle
Pipeline(l) ==
    LET calls == SelectSeq(l, LAMBDA c : c.fn \notin {"PdfReader", "_pagect_localpdf"})
    IN [i \in DOMAIN calls |-> [calls[i] EXCEPT !.src = "-"]]

SameGeometry(a, b) ==
    /\ a.area_headpg = b.area_headpg
    /\ a.cols_headpg = b.cols_headpg
    /\ a.area_otherpgs = b.area_otherpgs
    /\ a.cols_otherpgs = b.cols_otherpgs

\* C10: with the page count established, the same geometry and the same
\* collaborator answers, the two entry operations make the same pipeline
\* calls and end with the same table or the same error.
C10_SamePipeline ==
    (Ended /\ prev.mode \notin {"none", mode} /\ SameGeometry(args, prev.args)
        /\ pdf_numpgs >= 1 /\ prev.pdf_numpgs = pdf_numpgs)
        => /\ Pipeline(log) = Pipeline(prev.log)
           /\ outcome = prev.outcome

C10_Witness ==
    /\ Ended /\ mode = "local" /\ prev.mode = "url" /\ SameGeometry(args, prev.args)
    /\ pdf_numpgs >= 2 /\ prev.pdf_numpgs = pdf_numpgs
    /\ outcome.kind = "return" /\ Len(outcome.table) = pdf_numpgs

====
